---- MODULE Spec2Model ----
(***************************************************************************)
(* xpipe_api/clients.py: the blocking Client and the AsyncClient of the    *)
(* XPipe daemon's HTTP API.                                                *)
(*                                                                         *)
(* The state is the client object (token, auth_type, base_url,             *)
(* raise_errors, session) and, per caller, the frame of the call that is   *)
(* waiting for the daemon: one step of the model runs a call from one      *)
(* network request to the next, i.e. from one `requests.post/get` (or one  *)
(* `await async_requests.post/get`) to the next one or to the return/raise *)
(* that ends the call.  The daemon is the environment: every reply         *)
(* (status, body, sessionToken, version) is drawn from a small set.        *)
(***************************************************************************)
EXTENDS Integers, Sequences, FiniteSets, TLC

\* ------------------------------------------------------------------ bounds

\* Number of coroutines that may run concurrently on one AsyncClient.
NumTasks == 2

Tasks == 1..NumTasks

\* The one caller of a client whose operations are issued one at a time.
SeqTasks == {1}

\* --------------------------------------------------------- the daemon's side

\* Python's None.
None == "<None>"

\* Session tokens the daemon may hand out.
Tokens == {"tokA", "tokB"}

\* Status codes the daemon may answer with.
Statuses == {200, 400, 401, 500}

\* Shapes of a response body:
\*   empty         b""
\*   object        a JSON object holding every key its reader looks up
\*   objectNoKeys  a JSON object holding none of them
\*   notJson       text that is not JSON
\*   badBytes      bytes that do not decode as text
Bodies == {"empty", "object", "objectNoKeys", "notJson", "badBytes"}

\* Version strings the daemon may report in /daemon/version.
VersionStrings == {"9.9", "10.1", "10.1-11", "10.1-12", "10.2", "dev"}

Replies ==
    [status : Statuses, body : Bodies, sessionToken : {None}, version : {None}]

\* /handshake: an object body carries a sessionToken (possibly empty).
HandshakeReplies ==
    {r \in [status : {200}, body : Bodies,
            sessionToken : Tokens \cup {"", None}, version : {None}] :
        /\ r.body = "object" <=> r.sessionToken # None}

\* /daemon/version: an object body carries a version string.
VersionReplies ==
    {r \in [status : Statuses, body : Bodies,
            sessionToken : {None}, version : VersionStrings \cup {None}] :
        /\ r.body = "object" <=> r.version # None}

NoReply == [status |-> 0, body |-> "empty", sessionToken |-> None, version |-> None]

\* ------------------------------------------------------------- the operations

PostOps ==
    {"connection_query", "connection_info", "connection_add", "connection_remove",
     "connection_browse", "connection_terminal", "connection_toggle",
     "connection_refresh", "shell_start", "shell_stop", "shell_exec",
     "fs_blob", "fs_write", "fs_script", "fs_read", "post"}

GetOps == {"daemon_version", "get"}

Ops == PostOps \cup GetOps \cup {"get_connections"}

\* Operations a caller may pass its own headers to (the raw post/get).
RawOps == {"post", "get"}

\* Path of the first (for all but get_connections: the only) endpoint of an
\* operation.  The raw post/get take the caller's url.
Endpoint(op) ==
    CASE op = "connection_query"    -> "/connection/query"
      [] op = "get_connections"     -> "/connection/query"
      [] op = "connection_info"     -> "/connection/info"
      [] op = "connection_add"      -> "/connection/add"
      [] op = "connection_remove"   -> "/connection/remove"
      [] op = "connection_browse"   -> "/connection/browse"
      [] op = "connection_terminal" -> "/connection/terminal"
      [] op = "connection_toggle"   -> "/connection/toggle"
      [] op = "connection_refresh"  -> "/connection/refresh"
      [] op = "daemon_version"      -> "/daemon/version"
      [] op = "shell_start"         -> "/shell/start"
      [] op = "shell_stop"          -> "/shell/stop"
      [] op = "shell_exec"          -> "/shell/exec"
      [] op = "fs_blob"             -> "/fs/blob"
      [] op = "fs_write"            -> "/fs/write"
      [] op = "fs_script"           -> "/fs/script"
      [] op = "fs_read"             -> "/fs/read"
      [] OTHER                      -> "/caller/url"

Method(op) == IF op \in GetOps THEN "GET" ELSE "POST"

\* Headers are a map from header name to value.
NoHeaders == [k \in {} |-> ""]

\* What a caller of the raw post/get may pass as headers=.
CallerHeaders ==
    {NoHeaders,
     [k \in {"Authorization"} |-> "Basic caller"],
     [k \in {"X-Trace"} |-> "1"]}

\* ------------------------------------------------------------ pure helpers

\* Python truthiness of an Optional[str]: `not x`.
Falsy(x) == x = None \/ x = ""

Bearer(s) == "Bearer " \o s

\* Faulty variant: setdefault on the header too, so a caller's value stays.
SetAuthorizationKeep(headers, session) ==
    [k \in DOMAIN headers \cup {"Authorization"} |->
        IF k \in DOMAIN headers THEN headers[k] ELSE Bearer(session)]

\* kwargs.setdefault("headers", {})["Authorization"] = f"Bearer {self.session}"
SetAuthorization(headers, session) ==
    [k \in DOMAIN headers \cup {"Authorization"} |->
        IF k = "Authorization" THEN Bearer(session) ELSE headers[k]]

\* json.loads / Response.json on a body: does it parse, and to what.
JsonOk(body) == body \in {"object", "objectNoKeys"}

\* The exception json.loads(bytes) raises on a body it cannot parse.
JsonError(body) ==
    IF body = "badBytes" THEN "UnicodeDecodeError" ELSE "JSONDecodeError"

\* The exception the handshake's body parsing ends in when the body is no
\* JSON: requests' Response.json() raises JSONDecodeError; aiohttp's
\* resp.json(content_type=None) gives None for an empty body (and .get fails on
\* it) and decodes strictly.
ResponseJsonError(kind, body) ==
    IF kind = "Client" THEN "JSONDecodeError"
    ELSE IF body = "empty" THEN "AttributeError"
    ELSE JsonError(body)

\* packaging.version.Version(s): release and post-release number (-1: none),
\* or invalid.
Version(s) ==
    CASE s = "9.9"     -> [valid |-> TRUE, major |-> 9, minor |-> 9, post |-> -1]
      [] s = "10.1"    -> [valid |-> TRUE, major |-> 10, minor |-> 1, post |-> -1]
      [] s = "10.1-11" -> [valid |-> TRUE, major |-> 10, minor |-> 1, post |-> 11]
      [] s = "10.1-12" -> [valid |-> TRUE, major |-> 10, minor |-> 1, post |-> 12]
      [] s = "10.2"    -> [valid |-> TRUE, major |-> 10, minor |-> 2, post |-> -1]
      [] OTHER         -> [valid |-> FALSE, major |-> 0, minor |-> 0, post |-> -1]

\* Version.__ge__: release first, then the post-release (none sorts lowest).
VersionGE(a, b) ==
    \/ a.major > b.major
    \/ a.major = b.major /\ a.minor > b.minor
    \/ a.major = b.major /\ a.minor = b.minor /\ a.post >= b.post

min_version == Version("10.1-12")

\* ------------------------------------------------------- client and call frames

VARIABLES
    client,   \* the client object: kind, token, auth_type, base_url, raise_errors, session
    tasks,    \* per caller: the frame of the call waiting for the daemon
    ev,       \* what the last step did: reply consumed, request sent, outcome of the call
    hist,     \* the daemon's side: last token granted, last version reported
    peer      \* AsyncClient.from_sync_client(client), driven in lockstep (SpecPair)

vars == <<client, tasks, ev, hist, peer>>

Kinds == {"Client", "AsyncClient"}

\* Client.__init__ with base_url not given: token given (ApiKey) or read from
\* the local auth file (Local).
Construct(kind, token_given, ptb, raise_errors) ==
    [kind         |-> kind,
     token        |-> IF token_given THEN "api-key" ELSE "auth-file-content",
     auth_type    |-> IF token_given THEN "ApiKey" ELSE "Local",
     base_url     |-> IF ptb THEN "http://127.0.0.1:21722" ELSE "http://127.0.0.1:21721",
     raise_errors |-> raise_errors,
     session      |-> None]

from_sync_client(sync) ==
    [Construct("AsyncClient", TRUE, FALSE, sync.raise_errors) EXCEPT
        !.token = sync.token,
        !.base_url = sync.base_url,
        !.auth_type = sync.auth_type,
        !.session = sync.session]

\* A caller with no call in progress.
IdleTask ==
    [pc |-> "idle", op |-> "", path |-> "", headers |-> NoHeaders,
     session_token |-> None, nSent |-> 0, startSession |-> None]

\* The frame of a call of `op` at its start; startSession is the client's
\* session when the call starts, nSent the requests the call has sent.
NewCall(c, op, headers) ==
    [pc |-> "idle", op |-> op, path |-> Endpoint(op), headers |-> headers,
     session_token |-> None, nSent |-> 0, startSession |-> c.session]

\* A step's result: the client, the frame, the request sent (at most one) and,
\* when the call ends, its outcome.
Raise(c, exc, msg) ==
    [client |-> c, task |-> IdleTask, sent |-> <<>>,
     outcome |-> <<[kind |-> "raise", what |-> exc, detail |-> msg]>>]

Return(c, shape, of) ==
    [client |-> c, task |-> IdleTask, sent |-> <<>>,
     outcome |-> <<[kind |-> "return", what |-> shape, detail |-> of]>>]

\* requests.post / requests.get / async_requests.post / async_requests.get
\* with the Authorization header set from the session.
Request(c, tk, path, method, headers, pc) ==
    [client |-> c,
     task |-> [tk EXCEPT !.pc = pc, !.nSent = @ + 1],
     sent |-> <<[url |-> c.base_url \o path, method |-> method,
                 headers |-> SetAuthorization(headers, c.session),
                 json |-> <<>>]>>,
     outcome |-> <<>>]

HandshakeAuth(c) ==
    IF c.auth_type = "ApiKey"
    THEN <<c.auth_type, "key", c.token>>
    ELSE <<c.auth_type, "authFileContent", c.token>>

\* renew_session up to the handshake request.
RenewSessionSend(c, tk) ==
    [client |-> c,
     task |-> [tk EXCEPT !.pc = "handshake", !.nSent = @ + 1],
     sent |-> <<[url |-> c.base_url \o "/handshake", method |-> "POST",
                 headers |-> NoHeaders, json |-> HandshakeAuth(c)]>>,
     outcome |-> <<>>]

\* Faulty variant: no cached session, every request renews.
NeedsRenewAlways(c) == TRUE

\* `if not self.session:` of _post and _get.
NeedsRenew(c) == Falsy(c.session)

\* _post / _get up to the request: renew the session first when there is none.
PostOrGet(c, tk, path, method, headers, pc) ==
    IF NeedsRenew(c)
    THEN RenewSessionSend(c, tk)
    ELSE Request(c, tk, path, method, headers, pc)

\* Faulty variant: `if session is not None:`, which lets "" through.
TokenPresentNotNone(tok) == tok # None

\* `if session:` of renew_session.
TokenPresent(tok) == ~Falsy(tok)

\* Faulty variant: the first handshake to complete wins.
StoreSessionIfUnset(c, tok) ==
    IF Falsy(c.session) THEN [c EXCEPT !.session = tok] ELSE c

\* `self.session = session` of renew_session.
StoreSession(c, tok) == [c EXCEPT !.session = tok]

\* Faulty variant: the sessionToken is stored before it is tested.
RenewSessionRecvStoreFirst(c, tk, reply) ==
    IF ~JsonOk(reply.body)
    THEN Raise(c, ResponseJsonError(c.kind, reply.body), "")
    ELSE IF ~TokenPresent(reply.sessionToken)
    THEN Raise(StoreSession(c, reply.sessionToken), "AuthFailedException", "")
    ELSE PostOrGet(StoreSession(c, reply.sessionToken),
                   [tk EXCEPT !.session_token = reply.sessionToken],
                   "/daemon/version", "GET", NoHeaders, "version")

\* renew_session from the handshake's response to the /daemon/version request
\* (daemon_version -> get -> _get).
RenewSessionRecv(c, tk, reply) ==
    IF ~JsonOk(reply.body)
    THEN Raise(c, ResponseJsonError(c.kind, reply.body), "")
    ELSE IF ~TokenPresent(reply.sessionToken)
    THEN Raise(c, "AuthFailedException", "")
    ELSE PostOrGet(StoreSession(c, reply.sessionToken),
                   [tk EXCEPT !.session_token = reply.sessionToken],
                   "/daemon/version", "GET", NoHeaders, "version")

\* Faulty variant: `status_code > 400`.
IsFailureAbove400(status) == status > 400

\* `status_code >= 400` (Client), `not resp.ok` (AsyncClient).
IsFailure(status) == status >= 400

\* The message of the HTTP error: enriched from the body for 400 and 500 when
\* the body parses and holds the message, the generic one otherwise.
Message(status, body) ==
    IF status = 400 /\ body = "object" THEN "Client Error"
    ELSE IF status = 500 /\ body = "object" THEN "Server Error"
    ELSE "status reason"

\* The status check of _post / _get: the exception raised, if any.  The
\* AsyncClient reads the body as text before it builds the error.
HttpError(c, reply) ==
    IF c.raise_errors /\ IsFailure(reply.status)
    THEN IF c.kind = "Client"
         THEN <<[kind |-> "raise", what |-> "HTTPError",
                 detail |-> Message(reply.status, reply.body)]>>
         ELSE IF reply.body = "badBytes"
         THEN <<[kind |-> "raise", what |-> "UnicodeDecodeError", detail |-> ""]>>
         ELSE <<[kind |-> "raise", what |-> "ClientResponseError",
                 detail |-> Message(reply.status, reply.body)]>>
    ELSE <<>>

Ended(c, outcome) ==
    [client |-> c, task |-> IdleTask, sent |-> <<>>, outcome |-> outcome]

\* renew_session from the /daemon/version response on: the status check of
\* _get, json.loads, the version assertion, and then the request of the
\* operation that asked for the session.
DaemonVersionRecv(c, tk, reply) ==
    IF HttpError(c, reply) # <<>> THEN Ended(c, HttpError(c, reply))
    ELSE IF ~JsonOk(reply.body) THEN Raise(c, JsonError(reply.body), "")
    ELSE IF reply.version = None THEN Raise(c, "KeyError", "version")
    ELSE IF ~Version(reply.version).valid THEN Raise(c, "InvalidVersion", "")
    ELSE IF ~VersionGE(Version(reply.version), min_version)
    THEN Raise(c, "AssertionError", "")
    ELSE Request(c, tk, tk.path, Method(tk.op), tk.headers, "response")

\* The wrapper whose code reads the response: get_connections chains
\* connection_query and connection_info.
Wrapper(tk) ==
    IF tk.op # "get_connections" THEN tk.op
    ELSE IF tk.path = "/connection/query" THEN "connection_query"
    ELSE "connection_info"

ResultKey(w) ==
    CASE w = "connection_query" -> "found"
      [] w = "connection_info"  -> "infos"
      [] w = "connection_add"   -> "connection"
      [] w = "fs_blob"          -> "blob"
      [] w = "fs_script"        -> "path"
      [] OTHER                  -> ""

\* json.loads(response)
Loads(c, body) ==
    IF JsonOk(body) THEN Return(c, "json", body) ELSE Raise(c, JsonError(body), "")

\* What a wrapper makes of the body of its response.
WrapperResult(c, w, body) ==
    CASE w \in {"connection_query", "connection_info"} ->
            IF ~JsonOk(body) THEN Raise(c, JsonError(body), "")
            ELSE IF body = "object" THEN Return(c, "item", ResultKey(w))
            ELSE Return(c, "default", "[]")
      [] w \in {"connection_add", "fs_blob", "fs_script"} ->
            IF ~JsonOk(body) THEN Raise(c, JsonError(body), "")
            ELSE IF body = "object" THEN Return(c, "item", ResultKey(w))
            ELSE Raise(c, "KeyError", ResultKey(w))
      [] w \in {"connection_remove", "connection_browse", "connection_terminal",
                "connection_toggle", "connection_refresh", "shell_stop",
                "fs_write"} ->
            Return(c, "None", "")
      [] w = "shell_start" ->
            IF body = "empty" THEN Return(c, "dict", "{}") ELSE Loads(c, body)
      [] w = "shell_exec" ->
            IF c.kind = "Client" /\ body = "empty"
            THEN Return(c, "dict", "{}")
            ELSE Loads(c, body)
      [] w = "daemon_version" -> Loads(c, body)
      [] OTHER -> Return(c, "content", body)

\* The wrapper's code after _post / _get returned the response;
\* get_connections goes on to connection_info when connection_query found
\* something.
WrapperRecv(c, tk, reply) ==
    LET res == WrapperResult(c, Wrapper(tk), reply.body) IN
    IF /\ tk.op = "get_connections"
       /\ tk.path = "/connection/query"
       /\ res.outcome[1].kind = "return"
    THEN IF res.outcome[1].what = "item"
         THEN PostOrGet(c, [tk EXCEPT !.path = "/connection/info"],
                        "/connection/info", "POST", NoHeaders, "response")
         ELSE Return(c, "default", "[]")
    ELSE res

\* Faulty variant: a failed request is sent again.
OpRecvRetry(c, tk, reply) ==
    IF IsFailure(reply.status) /\ tk.nSent < 3
    THEN Request(c, tk, tk.path, Method(tk.op), tk.headers, "response")
    ELSE IF HttpError(c, reply) # <<>> THEN Ended(c, HttpError(c, reply))
    ELSE WrapperRecv(c, tk, reply)

\* _post / _get from the response on, and the wrapper that called it.
OpRecv(c, tk, reply) ==
    IF HttpError(c, reply) # <<>> THEN Ended(c, HttpError(c, reply))
    ELSE WrapperRecv(c, tk, reply)

\* --------------------------------------------------------------- the steps

\* The frame position a step starts from.
PcOf(step) == IF step = "call" THEN "idle" ELSE step

\* One step of a call on client c with frame tk (for "call": the new frame).
Step(c, tk, step, reply) ==
    CASE step = "call" ->
            PostOrGet(c, tk, tk.path, Method(tk.op), tk.headers, "response")
      [] step = "handshake" -> RenewSessionRecv(c, tk, reply)
      [] step = "version"   -> DaemonVersionRecv(c, tk, reply)
      [] OTHER              -> OpRecv(c, tk, reply)

NoEvent ==
    [task |-> 0, step |-> "none", op |-> "", status |-> 0, json |-> FALSE,
     sessionToken |-> None, sent |-> <<>>, outcome |-> <<>>, callSent |-> 0,
     startSession |-> None]

\* The record of a step: of the reply it consumed the status, whether the body
\* is JSON and the sessionToken; the request it sent; the outcome if the call
\* ended; callSent counts the requests the call has sent so far, this step's
\* included.
Event(t, step, tk, reply, r) ==
    [task |-> t, step |-> step, op |-> tk.op, status |-> reply.status,
     json |-> JsonOk(reply.body), sessionToken |-> reply.sessionToken,
     sent |-> r.sent,
     outcome |-> r.outcome, callSent |-> tk.nSent + Len(r.sent),
     startSession |-> tk.startSession]

\* Whether version string v is a version below min_version.
BelowMin(v) ==
    v # None /\ Version(v).valid /\ ~VersionGE(Version(v), min_version)

\* The daemon's side of a step: the last token it granted, and whether it has
\* reported a version below min_version.
Daemon(h, step, reply) ==
    [lastToken |-> IF step = "handshake" /\ reply.sessionToken \in Tokens
                   THEN reply.sessionToken ELSE h.lastToken,
     reportedBelow |-> h.reportedBelow \/ (step = "version" /\ BelowMin(reply.version))]

Frame(t, step, op, headers) ==
    IF step = "call" THEN NewCall(client, op, headers) ELSE tasks[t]

\* Caller t's call takes one step.
Do(t, step, op, headers, reply) ==
    /\ tasks[t].pc = PcOf(step)
    /\ LET tk == Frame(t, step, op, headers)
           r  == Step(client, tk, step, reply)
       IN  /\ client' = r.client
           /\ tasks' = [tasks EXCEPT ![t] = r.task]
           /\ ev' = Event(t, step, tk, reply, r)
           /\ hist' = Daemon(hist, step, reply)

\* The same step on the peer AsyncClient, when its call is at the same point.
PeerDo(step, op, headers, reply) ==
    IF peer.task.pc = PcOf(step)
    THEN LET tk == IF step = "call" THEN NewCall(peer.client, op, headers)
                   ELSE peer.task
             r  == Step(peer.client, tk, step, reply)
         IN  peer' = [client |-> r.client, task |-> r.task,
                      ev |-> Event(0, step, tk, reply, r)]
    ELSE peer' = [peer EXCEPT !.ev = NoEvent]

AllIdle == \A t \in Tasks : tasks[t].pc = "idle"

\* The headers a call of op may bring: only the raw post/get take any.
HeadersFor(op) == IF op \in RawOps THEN CallerHeaders ELSE {NoHeaders}

InitWith(kinds, givens, ptbs) ==
    /\ \E kind \in kinds, token_given \in givens, ptb \in ptbs,
          raise_errors \in BOOLEAN :
          client = Construct(kind, token_given, ptb, raise_errors)
    /\ tasks = [t \in Tasks |-> IdleTask]
    /\ ev = NoEvent
    /\ hist = [lastToken |-> None, reportedBelow |-> FALSE]
    /\ peer = [client |-> from_sync_client(client), task |-> IdleTask, ev |-> NoEvent]

\* ---- operations issued one at a time, on a Client or an AsyncClient

Init == InitWith(Kinds, BOOLEAN, BOOLEAN)

Call ==
    /\ AllIdle
    /\ \E t \in SeqTasks, op \in Ops : \E headers \in HeadersFor(op) :
            Do(t, "call", op, headers, NoReply) /\ UNCHANGED peer

HandshakeReply ==
    \E t \in Tasks, reply \in HandshakeReplies :
        Do(t, "handshake", "", NoHeaders, reply) /\ UNCHANGED peer

VersionReply ==
    \E t \in Tasks, reply \in VersionReplies :
        Do(t, "version", "", NoHeaders, reply) /\ UNCHANGED peer

OpReply ==
    \E t \in Tasks, reply \in Replies :
        Do(t, "response", "", NoHeaders, reply) /\ UNCHANGED peer

Next == Call \/ HandshakeReply \/ VersionReply \/ OpReply

Spec == Init /\ [][Next]_vars

\* ---- coroutines started concurrently on one AsyncClient

\* The operations the concurrent callers draw from.
ConcurrentOps == {"shell_exec"}

InitAsync == InitWith({"AsyncClient"}, {TRUE}, {FALSE})

CallAsync ==
    \E t \in Tasks, op \in ConcurrentOps :
        Do(t, "call", op, NoHeaders, NoReply) /\ UNCHANGED peer

NextAsync == CallAsync \/ HandshakeReply \/ VersionReply \/ OpReply

SpecAsync == InitAsync /\ [][NextAsync]_vars

\* ---- a Client and an AsyncClient given the same calls and the same replies

InitPair == InitWith({"Client"}, BOOLEAN, {FALSE})

PairCall ==
    /\ AllIdle
    /\ \E op \in Ops : \E headers \in HeadersFor(op) :
            /\ Do(1, "call", op, headers, NoReply)
            /\ PeerDo("call", op, headers, NoReply)

PairHandshakeReply ==
    \E reply \in HandshakeReplies :
        Do(1, "handshake", "", NoHeaders, reply)
        /\ PeerDo("handshake", "", NoHeaders, reply)

PairVersionReply ==
    \E reply \in VersionReplies :
        Do(1, "version", "", NoHeaders, reply)
        /\ PeerDo("version", "", NoHeaders, reply)

PairOpReply ==
    \E reply \in Replies :
        Do(1, "response", "", NoHeaders, reply)
        /\ PeerDo("response", "", NoHeaders, reply)

NextPair == PairCall \/ PairHandshakeReply \/ PairVersionReply \/ PairOpReply

SpecPair == InitPair /\ [][NextPair]_vars

\* ------------------------------------------------------------------ claims

IsHandshake(req) == req.url = client.base_url \o "/handshake"

IsVersion(req) == req.url = client.base_url \o "/daemon/version"

SentSome == ev.sent # <<>>

Raised == ev.outcome # <<>> /\ ev.outcome[1].kind = "raise"

Returned == ev.outcome # <<>> /\ ev.outcome[1].kind = "return"

RaisedHttpError ==
    Raised /\ ev.outcome[1].what \in {"HTTPError", "ClientResponseError"}

\* C1: on a blocking Client whose operations are issued one after the other, a
\* /handshake request is sent only by the first step of an operation that
\* started while session was unset, and never after a handshake has returned a
\* non-empty sessionToken.
C1_HandshakeOnce ==
    (client.kind = "Client" /\ SentSome /\ IsHandshake(ev.sent[1]))
        => /\ ev.step = "call"
           /\ Falsy(ev.startSession)
           /\ hist.lastToken = None

\* A later operation of a Client that holds a session sends its own request
\* straight away.
C1_Witness ==
    /\ client.kind = "Client"
    /\ hist.lastToken # None
    /\ ev.step = "call"
    /\ ev.startSession = hist.lastToken
    /\ SentSome
    /\ ~IsHandshake(ev.sent[1])

\* C2: every request sent to an endpoint other than /handshake carries
\* Authorization: Bearer <s> where s is the client's session when the request is
\* sent and is not empty; a caller-supplied Authorization header is overwritten.
C2_BearerOnEveryRequest ==
    (SentSome /\ ~IsHandshake(ev.sent[1]))
        => /\ ~Falsy(client.session)
           /\ client.session \in Tokens
           /\ ev.sent[1].headers["Authorization"] = Bearer(client.session)

\* A raw post/get whose caller passed its own Authorization header went out
\* with the session's bearer token instead.
C2_Witness ==
    /\ SentSome
    /\ ~IsHandshake(ev.sent[1])
    /\ ev.op \in RawOps
    /\ tasks[ev.task].pc = "response"
    /\ "Authorization" \in DOMAIN tasks[ev.task].headers
    /\ tasks[ev.task].headers["Authorization"] = "Basic caller"
    /\ ev.sent[1].headers["Authorization"] = Bearer(client.session)

C4_Original ==
    (ev.step = "response" /\ ev.status >= 400) => Raised

\* C4 amended: on a client constructed with raise_errors true, whenever the
\* daemon answers an operation's request with a status of 400 or above, the
\* operation raises an exception.
C4_Amended ==
    (client.raise_errors /\ ev.step = "response" /\ ev.status >= 400) => Raised

\* An operation of a raise_errors client answered with 400 raised.
C4_Witness ==
    /\ client.raise_errors
    /\ ev.step = "response"
    /\ ev.status = 400
    /\ Raised

\* C5: on a blocking Client that holds a session, a call of any operation but
\* get_connections sends exactly one request, whatever the status: no second
\* request, no /handshake, and session as it was before the call.
C5_NoRetry ==
    (/\ client.kind = "Client"
     /\ ev.step \in {"call", "response"}
     /\ ~Falsy(ev.startSession)
     /\ ev.op # "get_connections")
        => /\ ev.callSent = 1
           /\ ev.step = "call" => (SentSome /\ ~IsHandshake(ev.sent[1]))
           /\ ev.step = "response" => (~SentSome /\ ev.outcome # <<>>)
           /\ client.session = ev.startSession

\* A Client holding a session got a 401 and the call ended there, one request
\* sent.
C5_Witness ==
    /\ client.kind = "Client"
    /\ ev.step = "response"
    /\ ~Falsy(ev.startSession)
    /\ ev.op # "get_connections"
    /\ ev.status = 401
    /\ Raised
    /\ ev.callSent = 1

\* C6: no step changes token, auth_type, base_url or raise_errors; session
\* changes only in the step that consumes a handshake response, to that
\* response's non-empty sessionToken; once set, it is never unset.
C6_Frame ==
    [][/\ client'.token = client.token
       /\ client'.auth_type = client.auth_type
       /\ client'.base_url = client.base_url
       /\ client'.raise_errors = client.raise_errors
       /\ client'.session # client.session
            => /\ ev'.step = "handshake"
               /\ client'.session = ev'.sessionToken
               /\ ~Falsy(client'.session)
       /\ ~Falsy(client.session) => ~Falsy(client'.session)]_vars

\* A client that holds a session had an operation refused with 500 and still
\* holds the token the handshake gave it.
C6_Witness ==
    /\ ~Falsy(client.session)
    /\ client.session = hist.lastToken
    /\ ev.step = "response"
    /\ ev.status = 500
    /\ client.auth_type = "Local"

\* C7: given the same calls and the same replies, the AsyncClient sends the same
\* requests, ends with the same session, and returns the same value or fails in
\* the same cases as the Client.
C7_AsyncDuplicatesSync ==
    /\ peer.ev.sent = ev.sent
    /\ peer.client.session = client.session
    /\ (peer.ev.outcome = <<>>) <=> (ev.outcome = <<>>)
    /\ (ev.outcome # <<>> /\ peer.ev.outcome # <<>>)
         => /\ peer.ev.outcome[1].kind = ev.outcome[1].kind
            /\ ev.outcome[1].kind = "return" => peer.ev.outcome[1] = ev.outcome[1]

\* C8: session renewal of the AsyncClient is not serialised: whatever the
\* interleaving, session holds the token of the handshake response processed
\* last.
C8_LastHandshakeWins == client.session = hist.lastToken

\* Two coroutines both started with session unset and both did a handshake;
\* one of them has just sent its request with the token the other's handshake
\* obtained, not its own.
C8_Witness ==
    \E a \in Tasks, b \in Tasks :
        /\ a # b
        /\ ev.task = a
        /\ SentSome
        /\ ~IsHandshake(ev.sent[1])
        /\ ~IsVersion(ev.sent[1])
        /\ tasks[a].startSession = None
        /\ tasks[b].startSession = None
        /\ tasks[a].session_token \in Tokens
        /\ tasks[b].session_token \in Tokens
        /\ tasks[a].session_token # tasks[b].session_token
        /\ client.session = tasks[b].session_token
        /\ ev.sent[1].headers["Authorization"] = Bearer(tasks[b].session_token)

\* C9: the first operation of a fresh client sends /handshake, then
\* /daemon/version, then its own request; and no request to any other endpoint
\* is ever sent once the daemon has reported a version below min_version.
C9_MinVersionGate ==
    /\ (ev.step = "handshake" /\ SentSome)
            => (IsVersion(ev.sent[1]) /\ ev.callSent = 2)
    /\ (Falsy(ev.startSession) /\ ev.step # "handshake" /\ SentSome
            /\ ~IsHandshake(ev.sent[1]))
            => ev.callSent >= 3
    /\ (SentSome /\ ~IsHandshake(ev.sent[1]) /\ ~IsVersion(ev.sent[1]))
            => ~hist.reportedBelow

\* C10: _post/_get raise an HTTP error exactly when raise_errors is true and the
\* status is 400 or above; with raise_errors false the raw response comes back
\* whatever the status.
C10_RaiseErrorsDecides ==
    ev.step = "response"
        => /\ RaisedHttpError <=> (client.raise_errors /\ ev.status >= 400)
           /\ (~client.raise_errors /\ ev.op \in RawOps \cup {"fs_read"})
                => (Returned /\ ev.outcome[1].what = "content")

====
